---------------------------- MODULE Spec2Model ----------------------------
(***************************************************************************)
(* A model of ngraph's MLIRCompiler (the CPU backend's MLIR code path):    *)
(* boundary analysis of a compilation unit, construction of the nGraph     *)
(* dialect module, the two lowering stages, argument binding, JIT          *)
(* invocation and cleanup, as driven by MLIRCompiler::compile_and_run.     *)
(***************************************************************************)
EXTENDS Integers, Sequences, FiniteSets, TLC

(***************************************************************************)
(* Bounds of the model.                                                    *)
(***************************************************************************)
\* number of nodes of the surrounding graph (numbered in topological order)
NumNodes == 3
\* total number of node inputs (edges) of the surrounding graph
MaxEdges == 4
\* largest External Buffer Table handed to the compiler
MaxExternal == 4
\* largest number of scratch allocations the JIT'ed code makes in one call
MaxScratch == 2
\* number of times compile_and_run is called on one instance
MaxRuns == 2
\* the types of the dispatch primitive, each with its own static descriptor
NumTypes == 3
\* the objects a handle can point to
NumObjects == 2

VARIABLES
    graph,                  \* graph[n]: the source tensor of each input of node n
    m_sub_graph,            \* the compilation unit: a list of nodes
    np_type,                \* dynamic type of *m_sub_graph[0]
    element_type,           \* element type of the tensors around the unit
    m_ip_tensors,           \* boundary-input list
    m_op_tensors,           \* boundary-output list
    m_tensor_to_value_map,  \* set of <<tensor, value>> entries
    m_module,               \* the mlir::Module: a list of at most one
    m_builder,              \* the FuncBuilder: a list of at most one
    m_external_tensors,     \* External Buffer Table
    m_invoke_args,          \* invocation argument list (addresses)
    heap,                   \* malloc'ed blocks: address -> content
    freed,                  \* every address handed to free()
    m_mem_mgr,              \* outstanding scratch allocations
    m_engine,               \* the execution engine: a list of at most one
    pc,                     \* position inside compile_and_run
    runs,                   \* how many times compile_and_run was entered
    phase,                  \* last lifecycle phase completed (history)
    trace,                  \* phase operations entered, in order (history)
    failure,                \* the failure that ended the run, or NoFailure
    type_info,              \* T::type_info of every type T: address -> descriptor
    handle,                 \* the value given to is_type / as_type / as_type_ptr
    dispatched              \* what the last of these calls gave back

vars == <<graph, m_sub_graph, np_type, element_type, m_ip_tensors, m_op_tensors,
          m_tensor_to_value_map, m_module, m_builder, m_external_tensors,
          m_invoke_args, heap, freed, m_mem_mgr, m_engine, pc, runs, phase,
          trace, failure, type_info, handle, dispatched>>

\* the state of the type dispatch primitive (type.hpp)
dispatch == <<type_info, handle, dispatched>>

(***************************************************************************)
(* The graph around the unit.  A tensor is <<node, output index>>; a node  *)
(* input (descriptor::Input) is <<node, input index>>.                     *)
(***************************************************************************)
Nodes == 1 .. NumNodes

\* Node::get_output_size(): even nodes have two outputs, odd nodes one
get_output_size(n) == IF n % 2 = 0 THEN 2 ELSE 1

TensorsOf(n) == { <<n, i>> : i \in 0 .. (get_output_size(n) - 1) }

AllTensors == UNION { TensorsOf(n) : n \in Nodes }

TensorsBefore(n) == UNION { TensorsOf(p) : p \in 1 .. (n - 1) }

\* every graph on the nodes 1..n with at most e inputs in total; node n
\* takes its inputs from the outputs of earlier nodes
RECURSIVE GraphsUpTo(_, _)
GraphsUpTo(n, e) ==
    IF n = 0 THEN { <<>> }
    ELSE UNION { UNION { { Append(g, s) : g \in GraphsUpTo(n - 1, e - k) }
                         : s \in [1 .. k -> TensorsBefore(n)] }
                 : k \in 0 .. e }

Graphs == GraphsUpTo(NumNodes, MaxEdges)

\* the lists of distinct nodes, in any order
RECURSIVE NodeLists(_)
NodeLists(k) ==
    IF k = 0 THEN { <<>> }
    ELSE LET shorter == NodeLists(k - 1)
         IN shorter \cup
            { Append(s, n) : s \in { x \in shorter : Len(x) = k - 1 },
                             n \in Nodes }

DistinctNodeLists ==
    { s \in NodeLists(NumNodes) :
        \A i, j \in 1 .. Len(s) : i # j => s[i] # s[j] }

\* Node::get_arguments(): the producer of each input, in input order
get_arguments(g, n) == [k \in 1 .. Len(g[n]) |-> g[n][k][1]]

\* Node::get_output_inputs(i): the inputs that read output i of node n
get_output_inputs(g, n, i) ==
    { <<c, k>> \in Nodes \X (1 .. MaxEdges + 1) :
        k <= Len(g[c]) /\ g[c][k] = <<n, i>> }

Range(s) == { s[k] : k \in 1 .. Len(s) }

Count(s, x) == Cardinality({ k \in 1 .. Len(s) : s[k] = x })

(***************************************************************************)
(* MLIRCompiler::build_tensors_list                                        *)
(***************************************************************************)
\* a test that takes every node to lie outside the unit
out_of_subgraph_always(sg, node) == TRUE

\* std::find(begin(m_sub_graph), end(m_sub_graph), node) == end(m_sub_graph)
out_of_subgraph(sg, node) == \A k \in 1 .. Len(sg) : sg[k] # node

\* a push_back that does not look for the tensor first
push_back_always(list, tensor) == Append(list, tensor)

\* push_back unless std::find already sees the tensor in m_ip_tensors
register_input(list, tensor) ==
    IF \E k \in 1 .. Len(list) : list[k] = tensor
    THEN list
    ELSE Append(list, tensor)

\* push_back unless std::find already sees the tensor in m_op_tensors
register_output(list, tensor) ==
    IF \E k \in 1 .. Len(list) : list[k] = tensor
    THEN list
    ELSE Append(list, tensor)

\* the loop over node's outputs i, i+1, ...: an output with a use outside
\* the unit is an output tensor
RECURSIVE scan_outputs(_, _, _, _, _)
scan_outputs(g, sg, node, i, op) ==
    IF i >= get_output_size(node) THEN op
    ELSE LET used_outside ==
                 \E ip \in get_output_inputs(g, node, i) :
                     out_of_subgraph(sg, ip[1])
         IN scan_outputs(g, sg, node, i + 1,
                IF used_outside THEN register_output(op, <<node, i>>) ELSE op)

\* the inner loop over the outputs i, i+1, ... of an outside producer
RECURSIVE scan_producer(_, _, _)
scan_producer(arg, i, ip) ==
    IF i >= get_output_size(arg) THEN ip
    ELSE scan_producer(arg, i + 1, register_input(ip, <<arg, i>>))

\* the loop over node's arguments k, k+1, ...
RECURSIVE scan_arguments(_, _, _, _, _)
scan_arguments(g, sg, node, k, ip) ==
    LET args == get_arguments(g, node)
    IN IF k > Len(args) THEN ip
       ELSE scan_arguments(g, sg, node, k + 1,
                IF out_of_subgraph(sg, args[k])
                THEN scan_producer(args[k], 0, ip)
                ELSE ip)

\* the loop over the unit's nodes j, j+1, ...; lists is <<ip, op>>
RECURSIVE build_tensors_list(_, _, _, _)
build_tensors_list(g, sg, j, lists) ==
    IF j > Len(sg) THEN lists
    ELSE build_tensors_list(g, sg, j + 1,
             << scan_arguments(g, sg, sg[j], 1, lists[1]),
                scan_outputs(g, sg, sg[j], 0, lists[2]) >>)


(***************************************************************************)
(* MLIRCompiler::get_mlir_type                                             *)
(***************************************************************************)
ElementTypes ==
    { "undefined", "dynamic", "boolean", "bf16", "f32", "f64",
      "i8", "i16", "i32", "i64", "u8", "u16", "u32", "u64" }

FloatType(w) == [kind |-> "float", width |-> w]

IntegerType(w) == [kind |-> "integer", width |-> w]

\* NGRAPH_ASSERT(false) << "MLIR: Unsupported NGraph types"
UnsupportedType == [kind |-> "fatal", width |-> 0]

\* a translation that takes a boolean for an 8-bit integer
get_mlir_type_coercing(type) ==
    CASE type = "f32" -> FloatType(32)
      [] type = "f64" -> FloatType(64)
      [] type \in { "i8", "u8", "boolean" } -> IntegerType(8)
      [] type \in { "i16", "u16" } -> IntegerType(16)
      [] type \in { "i32", "u32" } -> IntegerType(32)
      [] type \in { "i64", "u64" } -> IntegerType(64)
      [] OTHER -> UnsupportedType

\* the switch over type.get_type_enum(); every label that returns no type,
\* and "default", ends in NGRAPH_ASSERT(false)
get_mlir_type(type) ==
    CASE type = "f32" -> FloatType(32)
      [] type = "f64" -> FloatType(64)
      [] type \in { "i8", "u8" } -> IntegerType(8)
      [] type \in { "i16", "u16" } -> IntegerType(16)
      [] type \in { "i32", "u32" } -> IntegerType(32)
      [] type \in { "i64", "u64" } -> IntegerType(64)
      [] OTHER -> UnsupportedType

\* get_mlir_type(const descriptor::Tensor*): an NGTensorType of the element type
NGTensorType(eltype) == [kind |-> "ng_tensor", element |-> eltype]

(***************************************************************************)
(* The IR Value Map: m_tensor_to_value_map, a std::map kept here as its    *)
(* set of <<tensor, TensorInfo>> entries.                                  *)
(***************************************************************************)
NoValue == [kind |-> "none", fn |-> 0, idx |-> 0]

\* function->getArgument(i) of the function built by run r
ArgumentValue(r, i) == [kind |-> "arg", fn |-> r, idx |-> i]

\* the result of the instruction created for node n by run r
ResultValue(r, n) == [kind |-> "res", fn |-> r, idx |-> n]

\* m_tensor_to_value_map.find(tensor)
map_find(map, tensor) == { e \in map : e[1] = tensor }

\* std::map::insert: the pair is added only when the key is absent
map_insert(map, tensor, value) ==
    IF map_find(map, tensor) # {} THEN map ELSE map \cup { <<tensor, value>> }

\* an update that skips the "already defined" assertion and overwrites
update_tensor_value_overwrite(map, tensor, value) ==
    [ok |-> TRUE,
     map |-> (map \ map_find(map, tensor)) \cup { <<tensor, value>> }]

\* NGRAPH_ASSERT(find(tensor) == end()) << "tensor value already defined"
update_tensor_value(map, tensor, value) ==
    IF map_find(map, tensor) # {}
    THEN [ok |-> FALSE, map |-> map]
    ELSE [ok |-> TRUE, map |-> map_insert(map, tensor, value)]

\* NGRAPH_ASSERT(it != end()) << "Undefined tensor"; return it->second
get_tensor_value(map, tensor) ==
    IF map_find(map, tensor) = {}
    THEN [ok |-> FALSE, value |-> NoValue]
    ELSE [ok |-> TRUE, value |-> (CHOOSE e \in map_find(map, tensor) : TRUE)[2]]

(***************************************************************************)
(* Failures.  A fatal failure is a failed NGRAPH_ASSERT / NGRAPH_FAIL, an  *)
(* abort is a failed C assert, unsupported_op is the typed exception.      *)
(***************************************************************************)
NoFailure == [kind |-> "none", msg |-> <<>>]

Fatal(text) == [kind |-> "fatal", msg |-> <<text>>]

Abort(text) == [kind |-> "abort", msg |-> <<text>>]

\* Node::description() of the unit's node: the name of its operation
description(type) == type

\* an exception text that leaves the operation's name out
unsupported_op_anonymous(type) ==
    [kind |-> "unsupported_op",
     msg |-> << "The MLIR backend doesn't currently implement this operation" >>]

\* throw unsupported_op{"The MLIR backend ... '" + np->description() + "' operation"}
unsupported_op(type) ==
    [kind |-> "unsupported_op",
     msg |-> << "The MLIR backend doesn't currently implement the '",
                description(type), "' operation" >>]

(***************************************************************************)
(* The op dispatch table and the builders.                                 *)
(***************************************************************************)
OpTypes == { "Add", "MatmulBias", "Relu" }

\* op_dispatcher: type -> the dialect operation its builder creates
op_dispatcher ==
    [t \in { "Add", "MatmulBias" } |->
        IF t = "Add" THEN "NG_AddOp" ELSE "NG_MatmulBiasOp"]

\* Node::get_output_tensor_ptr(): the tensor of the node's first output
get_output_tensor_ptr(n) == <<n, 0>>

Instruction(name, operands, result) ==
    [op |-> name, operands |-> operands, result |-> result]


(***************************************************************************)
(* MLIRCompiler::build_ng_dialect and what it calls.  map is the value     *)
(* map on entry, r the number of the run (it names the function built).    *)
(***************************************************************************)
\* create_binary_op<BinOp>: both operands are looked up, one instruction is made
create_binary_op(g, binop, np, r, map) ==
    LET args == get_arguments(g, np)
        lhs_v == get_tensor_value(map, get_output_tensor_ptr(args[1]))
        rhs_v == get_tensor_value(map, get_output_tensor_ptr(args[2]))
    IN IF ~lhs_v.ok \/ ~rhs_v.ok
       THEN [failure |-> Fatal("Undefined tensor"), value |-> NoValue,
             instr |-> Instruction(binop, <<>>, NoValue)]
       ELSE [failure |-> NoFailure, value |-> ResultValue(r, np),
             instr |-> Instruction(binop, <<lhs_v.value, rhs_v.value>>,
                                   ResultValue(r, np))]

\* create_op<op::Add>, create_op<op::MatmulBias>
create_op(g, type, np, r, map) ==
    IF type = "MatmulBias" /\ Len(get_arguments(g, np)) # 2
    THEN [failure |-> Fatal("Bias is not supported in MatmulBias operation"),
          value |-> NoValue,
          instr |-> Instruction(op_dispatcher[type], <<>>, NoValue)]
    ELSE create_binary_op(g, op_dispatcher[type], np, r, map)

\* the loop of create_return over m_op_tensors k, k+1, ...
RECURSIVE return_values(_, _, _, _)
return_values(map, op, k, value_list) ==
    IF k > Len(op) THEN [ok |-> TRUE, values |-> value_list]
    ELSE LET v == get_tensor_value(map, op[k])
         IN IF ~v.ok THEN [ok |-> FALSE, values |-> value_list]
            ELSE return_values(map, op, k + 1, Append(value_list, v.value))

\* a return that lists the values it finds and passes over the rest
create_return_of_defined(map, op) ==
    LET defined == { k \in 1 .. Len(op) : map_find(map, op[k]) # {} }
        first == IF defined = {} THEN <<>>
                 ELSE LET k == CHOOSE j \in defined : \A i \in defined : j <= i
                      IN << (CHOOSE e \in map_find(map, op[k]) : TRUE)[2] >>
    IN [ok |-> TRUE, instr |-> [op |-> "NG_ReturnOp", operands |-> first,
                               result |-> NoValue]]

\* create_return: one NG_ReturnOp over the values of m_op_tensors, in order
create_return(map, op) ==
    LET vl == return_values(map, op, 1, <<>>)
    IN [ok |-> vl.ok,
        instr |-> Instruction("NG_ReturnOp", vl.values, NoValue)]

build_ng_dialect(g, sg, type, r, map, op) ==
    IF Len(sg) # 1
    THEN [failure |-> Fatal("Supporting code-gen for a single node for now"),
          map |-> map, body |-> <<>>]
    ELSE IF type \notin DOMAIN op_dispatcher
    THEN [failure |-> unsupported_op(type), map |-> map, body |-> <<>>]
    ELSE
      LET np == sg[1]
          made == create_op(g, type, np, r, map)
          upd == update_tensor_value(map, get_output_tensor_ptr(np), made.value)
          ret == create_return(upd.map, op)
      IN IF made.failure.kind # "none"
         THEN [failure |-> made.failure, map |-> map, body |-> <<>>]
         ELSE IF ~upd.ok
         THEN [failure |-> Fatal("tensor value already defined"),
               map |-> upd.map, body |-> << made.instr >>]
         ELSE IF ~ret.ok
         THEN [failure |-> Fatal("Undefined tensor"),
               map |-> upd.map, body |-> << made.instr >>]
         ELSE [failure |-> NoFailure, map |-> upd.map,
               body |-> << made.instr, ret.instr >>]

(***************************************************************************)
(* MLIRCompiler::build_module.  The result names the members after the     *)
(* call: the lists, the value map, the module, the builder, the failure.   *)
(***************************************************************************)
EmptyModule == [dialect |-> "ng", functions |-> <<>>]

\* the loop that enters function->getArgument(i) for the i-th input tensor
RECURSIVE populate_value_map(_, _, _, _)
populate_value_map(map, ip, r, i) ==
    IF i >= Len(ip) THEN map
    ELSE populate_value_map(map_insert(map, ip[i + 1], ArgumentValue(r, i)),
                            ip, r, i + 1)

\* a build that takes any lists
check_lists_skipped(ip, op) == NoFailure

\* NGRAPH_ASSERT(m_ip_tensors.size() != 0); NGRAPH_ASSERT(m_op_tensors.size() != 0)
check_lists(ip, op) ==
    IF ip = <<>> THEN Fatal("Cannot have empty inputs list")
    ELSE IF op = <<>> THEN Fatal("Cannot have empty outputs list")
    ELSE NoFailure

build_module(g, sg, type, eltype, r, ip0, op0, map0, builder0) ==
    LET lists == build_tensors_list(g, sg, 1, <<ip0, op0>>)
        ip == lists[1]
        op == lists[2]
        stopped(why) ==
            [ip |-> ip, op |-> op, map |-> map0, module |-> << EmptyModule >>,
             builder |-> builder0, failure |-> why]
        function ==
            [name |-> "main",
             args |-> [i \in 1 .. Len(ip) |-> NGTensorType(get_mlir_type(eltype))],
             results |-> [i \in 1 .. Len(op) |-> NGTensorType(get_mlir_type(eltype))],
             body |-> <<>>]
        map1 == populate_value_map(map0, ip, r, 0)
        built == build_ng_dialect(g, sg, type, r, map1, op)
    IN IF check_lists(ip, op).kind # "none" THEN stopped(check_lists(ip, op))
       ELSE IF get_mlir_type(eltype).kind = "fatal"
       THEN stopped(Fatal("MLIR: Unsupported NGraph types"))
       ELSE IF built.failure.kind # "none"
       THEN [ip |-> ip, op |-> op, map |-> built.map,
             module |-> << EmptyModule >>, builder |-> << r >>,
             failure |-> built.failure]
       ELSE [ip |-> ip, op |-> op, map |-> built.map,
             module |-> << [dialect |-> "ng",
                            functions |-> << [function EXCEPT
                                                !.body = built.body] >>] >>,
             builder |-> << r >>, failure |-> NoFailure]


(***************************************************************************)
(* The lowered function and the heap.                                      *)
(***************************************************************************)
MemRefType == [kind |-> "memref", element |-> FloatType(32), dynamic_dims |-> 0]

IndexType == [kind |-> "index", element |-> FloatType(32), dynamic_dims |-> 0]

\* the signature the dialect lowering gives "main": one memory reference per
\* boundary input, one per boundary output, then the scratch allocator
LoweredSignature(ip, op) ==
    [i \in 1 .. (Len(ip) + Len(op)) |-> MemRefType] \o << IndexType >>

\* the reserved, final position of the scratch allocator's argument
get_mem_mgr_arg_id(func) == Len(func.args) - 1

\* m_module->getNamedFunction("main"): a list of at most one function
getNamedFunction(module, name) ==
    IF \E k \in 1 .. Len(module.functions) : module.functions[k].name = name
    THEN << module.functions[CHOOSE k \in 1 .. Len(module.functions) :
                                 module.functions[k].name = name] >>
    ELSE <<>>

NullPointer == <<"null", 0>>

MemMgrPointer == <<"mem_mgr", 0>>

ExternalBuffer(i) == <<"ext", i>>

ExternalTable(n) == [i \in 1 .. n |-> ExternalBuffer(i)]

\* malloc: a block the heap does not hold yet
malloc(h) ==
    <<"heap", CHOOSE k \in 1 .. (Cardinality(DOMAIN h) + 1) :
                  /\ <<"heap", k>> \notin DOMAIN h
                  /\ \A j \in 1 .. (k - 1) : <<"heap", j>> \in DOMAIN h>>

Store(h, a, content) == [x \in DOMAIN h \cup {a} |-> IF x = a THEN content ELSE h[x]]

Release(h, a) == [x \in DOMAIN h \ {a} |-> h[x]]

\* allocate_memref_args: the loop over the function's arguments k, k+1, ...
\* allocate_memref_descriptor gives a null pointer for a type that is no
\* memory reference (skipped), fails for dynamic dimensions, and else
\* gives a malloc'ed descriptor whose data pointer is null
RECURSIVE allocate_memref_args(_, _, _, _)
allocate_memref_args(fargs, k, args, h) ==
    IF k > Len(fargs) THEN [ok |-> TRUE, args |-> args, heap |-> h]
    ELSE IF fargs[k].kind # "memref"
    THEN allocate_memref_args(fargs, k + 1, args, h)
    ELSE IF fargs[k].dynamic_dims # 0
    THEN [ok |-> FALSE, args |-> args, heap |-> h]
    ELSE LET descriptor == malloc(h)
         IN allocate_memref_args(fargs, k + 1, Append(args, descriptor),
                                 Store(h, descriptor, NullPointer))

\* a loop that stops one descriptor early
RECURSIVE assign_external_but_last(_, _, _, _)
assign_external_but_last(h, args, table, i) ==
    IF i >= Len(args) THEN h
    ELSE assign_external_but_last(Store(h, args[i], table[i]), args, table, i + 1)

\* the loop that stores external tensor i in descriptor i
RECURSIVE assign_external(_, _, _, _)
assign_external(h, args, table, i) ==
    IF i > Len(args) THEN h
    ELSE assign_external(Store(h, args[i], table[i]), args, table, i + 1)

\* a loop that forgets the last argument
RECURSIVE free_all_but_last(_, _, _)
free_all_but_last(h, fr, args) ==
    IF Len(args) <= 1 THEN [heap |-> h, freed |-> fr]
    ELSE free_all_but_last(Release(h, Head(args)), fr \cup { Head(args) },
                           Tail(args))

\* the loop of cleanup: free(arg) for every invocation argument
RECURSIVE free_invoke_args(_, _, _)
free_invoke_args(h, fr, args) ==
    IF args = <<>> THEN [heap |-> h, freed |-> fr]
    ELSE free_invoke_args(Release(h, Head(args)), fr \cup { Head(args) },
                          Tail(args))

\* MLIRMemMgr::freeAll: every scratch allocation is released
freeAll(mgr) == 0


(***************************************************************************)
(* MLIRCompiler::bind_arguments.  The result names m_invoke_args, the heap *)
(* and the failure after the call.                                         *)
(***************************************************************************)
\* bind_arguments without the comparison against m_external_tensors.size()
bind_arguments_unchecked(module, table, invoke_args0, h) ==
    LET func == getNamedFunction(module[1], "main")
        alloc == allocate_memref_args(func[1].args, 1, <<>>, h)
        mem_mgr_arg == malloc(alloc.heap)
    IN [invoke_args |-> Append(alloc.args, mem_mgr_arg),
        heap |-> Store(alloc.heap, mem_mgr_arg, MemMgrPointer),
        failure |-> NoFailure]

bind_arguments(module, table, invoke_args0, h) ==
    LET func == getNamedFunction(module[1], "main")
        alloc == allocate_memref_args(func[1].args, 1, <<>>, h)
        assigned == assign_external(alloc.heap, alloc.args, table, 1)
        mem_mgr_arg == malloc(assigned)
        with_mgr == Store(assigned, mem_mgr_arg, MemMgrPointer)
    IN IF module = <<>>
       THEN [invoke_args |-> invoke_args0, heap |-> h,
             failure |-> Fatal("MLIR module is not ready.")]
       ELSE IF func = <<>>
       THEN [invoke_args |-> invoke_args0, heap |-> h,
             failure |-> Fatal("Function not found")]
       ELSE IF ~alloc.ok
       THEN [invoke_args |-> invoke_args0, heap |-> alloc.heap,
             failure |-> Fatal("NGRAPH_FAIL")]
       ELSE IF Len(alloc.args) = 0
       THEN [invoke_args |-> invoke_args0, heap |-> alloc.heap,
             failure |-> Fatal("Arguments can't be created")]
       ELSE IF Len(alloc.args) # Len(table)
       THEN [invoke_args |-> alloc.args, heap |-> alloc.heap,
             failure |-> Fatal("Number of external tensors doesn't match number of function arguments")]
       ELSE IF Len(alloc.args) # get_mem_mgr_arg_id(func[1])
       THEN [invoke_args |-> alloc.args, heap |-> with_mgr,
             failure |-> Fatal("memory manager argument is not last")]
       ELSE [invoke_args |-> Append(alloc.args, mem_mgr_arg),
             heap |-> with_mgr, failure |-> NoFailure]

(***************************************************************************)
(* The type dispatch primitive of type.hpp.  A type T is named by the      *)
(* address of its static T::type_info, a DiscreteTypeInfo; a handle is a   *)
(* pointer to an object together with the descriptor that the object's     *)
(* get_type_info() reports.                                                *)
(***************************************************************************)
Types == 1 .. NumTypes

TypeNames == { "Add", "Relu" }

Versions == { 0, 1 }

\* struct DiscreteTypeInfo { const char* name; uint64_t version; }
DiscreteTypeInfo == [name : TypeNames, version : Versions]

NullHandle == [addr |-> 0, info |-> 0]

Handles ==
    { NullHandle } \cup
    { [addr |-> a, info |-> d] : a \in 1 .. NumObjects, d \in Types }

\* value->get_type_info(): the address of the descriptor the object reports
get_type_info(v) == v.info

\* a test that compares the descriptors' name and version
is_castable_by_name(this, target_type) == type_info[this] = type_info[target_type]

\* DiscreteTypeInfo::is_castable: this == &target_type
is_castable(this, target_type) == this = target_type

\* what a call through a null handle can do: value->get_type_info() is
\* undefined there, the call crashes or reads some descriptor
UndefinedOutcomes == { "crash", "match", "no_match" }

\* is_type<Type>(value)
is_type(Type, v, undefined) ==
    IF v = NullHandle
    THEN [failed |-> undefined = "crash", answer |-> undefined = "match"]
    ELSE [failed |-> FALSE, answer |-> is_castable(get_type_info(v), Type)]

\* a pointer of static type Type to the object at addr; addr 0 is nullptr
Pointer(kind, Type, a) == [kind |-> kind, type |-> Type, addr |-> a]

\* as_type<Type>(value): is_type ? static_cast<Type*>(value) : nullptr
as_type(Type, v, undefined) ==
    LET t == is_type(Type, v, undefined)
    IN [failed |-> t.failed,
        answer |-> IF t.failed THEN Pointer("none", Type, 0)
                   ELSE IF t.answer THEN Pointer("raw", Type, v.addr)
                   ELSE Pointer("raw", Type, 0)]

\* as_type_ptr<Type>(value): is_type ? static_pointer_cast<Type>(value)
\*                                   : std::shared_ptr<Type>()
as_type_ptr(Type, v, undefined) ==
    LET t == is_type(Type, v, undefined)
    IN [failed |-> t.failed,
        answer |-> IF t.failed THEN Pointer("none", Type, 0)
                   ELSE IF t.answer THEN Pointer("shared", Type, v.addr)
                   ELSE Pointer("shared", Type, 0)]

NoResult == [op |-> "none", target |-> 0, failed |-> FALSE, answer |-> FALSE]

\* no handle is under test while the compiler runs
NoDispatch ==
    /\ type_info = <<>>
    /\ handle = NullHandle
    /\ dispatched = NoResult

(***************************************************************************)
(* The state after construction.                                           *)
(***************************************************************************)
\* the units the partitioner hands over: nodes in topological order
RECURSIVE SortedLists(_)
SortedLists(n) ==
    IF n = 0 THEN { <<>> }
    ELSE LET before == SortedLists(n - 1)
         IN before \cup { Append(s, n) : s \in before }

\* an Add node has two inputs, a MatmulBias node two or three
WellTyped(g, sg, type) ==
    IF sg = <<>> THEN type = "Relu"
    ELSE CASE type = "Add" -> Len(g[sg[1]]) = 2
           [] type = "MatmulBias" -> Len(g[sg[1]]) \in { 2, 3 }
           [] OTHER -> TRUE

Constructed(first_pc) ==
    /\ m_ip_tensors = <<>>
    /\ m_op_tensors = <<>>
    /\ m_tensor_to_value_map = {}
    /\ m_module = <<>>
    /\ m_builder = <<>>
    /\ m_external_tensors = <<>>
    /\ m_invoke_args = <<>>
    /\ heap = <<>>
    /\ freed = {}
    /\ m_mem_mgr = 0
    /\ m_engine = <<>>
    /\ pc = first_pc
    /\ runs = 0
    /\ phase = "NotBuilt"
    /\ trace = <<>>
    /\ failure = NoFailure

Init ==
    /\ graph \in Graphs
    /\ m_sub_graph \in SortedLists(NumNodes)
    /\ np_type \in OpTypes
    /\ WellTyped(graph, m_sub_graph, np_type)
    /\ element_type \in { "f32", "boolean" }
    /\ Constructed("idle")
    /\ NoDispatch

unit == <<graph, m_sub_graph, np_type, element_type>>

\* the history: which operation was entered, whether it completed, and a
\* number it worked with (table length, scratch allocations)
Enter(name, ok, n) ==
    trace' = Append(trace, [op |-> name, ok |-> ok, n |-> n])

AfterFailure(f) ==
    CASE f.kind = "none" -> "next"
      [] f.kind = "unsupported_op" -> "unsupported"
      [] OTHER -> "aborted"

(***************************************************************************)
(* MLIRCompiler::compile_and_run, one action per call it makes.            *)
(***************************************************************************)
CompileAndRun ==
    /\ pc \in { "idle", "done", "unsupported" }
    /\ runs < MaxRuns
    /\ pc' = "build_module"
    /\ runs' = runs + 1
    /\ trace' = <<>>
    /\ failure' = NoFailure
    /\ UNCHANGED <<unit, dispatch, m_ip_tensors, m_op_tensors, m_tensor_to_value_map,
                   m_module, m_builder, m_external_tensors, m_invoke_args,
                   heap, freed, m_mem_mgr, m_engine, phase>>

BuildModule ==
    /\ pc = "build_module"
    /\ LET b == build_module(graph, m_sub_graph, np_type, element_type, runs,
                             m_ip_tensors, m_op_tensors,
                             m_tensor_to_value_map, m_builder)
       IN /\ m_ip_tensors' = b.ip
          /\ m_op_tensors' = b.op
          /\ m_tensor_to_value_map' = b.map
          /\ m_module' = b.module
          /\ m_builder' = b.builder
          /\ failure' = b.failure
          /\ Enter("build_module", b.failure.kind = "none", 0)
          /\ phase' = IF b.failure.kind = "none" THEN "Built" ELSE phase
          /\ pc' = IF b.failure.kind = "none" THEN "lower_dialect"
                   ELSE AfterFailure(b.failure)
    /\ UNCHANGED <<unit, dispatch, m_external_tensors, m_invoke_args, heap, freed,
                   m_mem_mgr, m_engine, runs>>


\* what the first pass (DialectLoweringPass) leaves: the function takes memory
\* references and the scratch allocator, and returns nothing
DialectLowering(module, ip, op) ==
    [dialect |-> "affine",
     functions |-> [k \in 1 .. Len(module.functions) |->
                       [module.functions[k] EXCEPT
                           !.args = LoweredSignature(ip, op),
                           !.results = <<>>]]]

\* lower_dialect: pm.run(m_module.get()), its result dropped.  A run that
\* fails in the lowering pass leaves the module as it was, one that fails in
\* the canonicalizer leaves it lowered.
lower_dialect(module, ip, op, outcome) ==
    IF outcome = "lowering_failed" THEN module
    ELSE << DialectLowering(module[1], ip, op) >>

LowerDialect ==
    /\ pc = "lower_dialect"
    /\ \E outcome \in { "success", "lowering_failed", "canonicalizer_failed" } :
          /\ m_module' = lower_dialect(m_module, m_ip_tensors, m_op_tensors, outcome)
          /\ Enter("lower_dialect", outcome = "success", 0)
          /\ phase' = IF outcome = "success" THEN "Lowered" ELSE phase
    /\ pc' = "optimize"
    /\ UNCHANGED <<unit, dispatch, m_ip_tensors, m_op_tensors, m_tensor_to_value_map,
                   m_builder, m_external_tensors, m_invoke_args, heap, freed,
                   m_mem_mgr, m_engine, runs, failure>>

\* createLowerAffinePass: affine forms become plain control flow
LowerAffine(module) ==
    [module EXCEPT !.dialect = IF @ = "affine" THEN "std" ELSE @]

\* optimize: assert(succeeded(rr)) stops a failed run only in a build that
\* keeps assertions (ndebug is FALSE)
Optimize ==
    /\ pc = "optimize"
    /\ \E rr \in { "success", "failure" }, ndebug \in BOOLEAN :
          /\ m_module' = IF rr = "success" THEN << LowerAffine(m_module[1]) >>
                         ELSE m_module
          /\ Enter("optimize", rr = "success", 0)
          /\ phase' = IF rr = "success" THEN "Optimized" ELSE phase
          /\ failure' = IF rr = "failure" /\ ~ndebug
                        THEN Abort("affine loop lowering failed") ELSE failure
          /\ pc' = IF rr = "failure" /\ ~ndebug THEN "aborted"
                   ELSE "bind_arguments"
    /\ UNCHANGED <<unit, dispatch, m_ip_tensors, m_op_tensors, m_tensor_to_value_map,
                   m_builder, m_external_tensors, m_invoke_args, heap, freed,
                   m_mem_mgr, m_engine, runs>>

\* the caller's External Buffer Table is read here for the first time
BindArguments ==
    /\ pc = "bind_arguments"
    /\ \E n \in 0 .. MaxExternal :
          LET b == bind_arguments(m_module, ExternalTable(n), m_invoke_args, heap)
          IN /\ m_external_tensors' = ExternalTable(n)
             /\ m_invoke_args' = b.invoke_args
             /\ heap' = b.heap
             /\ failure' = b.failure
             /\ Enter("bind_arguments", b.failure.kind = "none", n)
             /\ phase' = IF b.failure.kind = "none" THEN "Bound" ELSE phase
             /\ pc' = IF b.failure.kind = "none" THEN "execute" ELSE "aborted"
    /\ UNCHANGED <<unit, dispatch, m_ip_tensors, m_op_tensors, m_tensor_to_value_map,
                   m_module, m_builder, freed, m_mem_mgr, m_engine, runs>>

\* execute: conversion to the LLVM dialect, construction of the engine, the
\* call of "main", during which the JIT'ed code takes scratch memory
execute(module, engine, mgr, r, converted, engine_made, invoked, scratch) ==
    IF module = <<>>
    THEN [module |-> module, engine |-> engine, mgr |-> mgr,
          failure |-> Fatal("MLIR module is not ready.")]
    ELSE IF ~converted
    THEN [module |-> module, engine |-> engine, mgr |-> mgr,
          failure |-> Fatal("second conversion failed")]
    ELSE IF ~engine_made
    THEN [module |-> << [module[1] EXCEPT !.dialect = "llvm"] >>,
          engine |-> engine, mgr |-> mgr,
          failure |-> Fatal("failed to construct an execution engine")]
    ELSE [module |-> << [module[1] EXCEPT !.dialect = "llvm"] >>,
          engine |-> << r >>, mgr |-> mgr + scratch,
          failure |-> IF invoked THEN NoFailure
                      ELSE Fatal("JIT invocation of 'main' failed")]

Execute ==
    /\ pc = "execute"
    /\ \E converted \in BOOLEAN, engine_made \in BOOLEAN, invoked \in BOOLEAN,
          scratch \in 0 .. MaxScratch :
          LET e == execute(m_module, m_engine, m_mem_mgr, runs,
                           converted, engine_made, invoked, scratch)
          IN /\ m_module' = e.module
             /\ m_engine' = e.engine
             /\ m_mem_mgr' = e.mgr
             /\ failure' = e.failure
             /\ Enter("execute", e.failure.kind = "none", e.mgr - m_mem_mgr)
             /\ phase' = IF e.failure.kind = "none" THEN "Executed" ELSE phase
             /\ pc' = IF e.failure.kind = "none" THEN "cleanup" ELSE "aborted"
    /\ UNCHANGED <<unit, dispatch, m_ip_tensors, m_op_tensors, m_tensor_to_value_map,
                   m_builder, m_external_tensors, m_invoke_args, heap, freed,
                   runs>>

\* cleanup: the arguments are freed, the builder reset, the scratch reclaimed
\* a cleanup that leaves the scratch allocator's slot allocated
cleanup_skips_last(invoke_args, h, fr, mgr) ==
    LET f == free_all_but_last(h, fr, invoke_args)
    IN [heap |-> f.heap, freed |-> f.freed, builder |-> <<>>,
        mgr |-> freeAll(mgr)]

cleanup(invoke_args, h, fr, mgr) ==
    LET f == free_invoke_args(h, fr, invoke_args)
    IN [heap |-> f.heap, freed |-> f.freed, builder |-> <<>>,
        mgr |-> freeAll(mgr)]

Cleanup ==
    /\ pc = "cleanup"
    /\ LET c == cleanup(m_invoke_args, heap, freed, m_mem_mgr)
       IN /\ heap' = c.heap
          /\ freed' = c.freed
          /\ m_builder' = c.builder
          /\ m_mem_mgr' = c.mgr
    /\ Enter("cleanup", TRUE, 0)
    /\ phase' = "Cleaned"
    /\ pc' = "done"
    /\ UNCHANGED <<unit, dispatch, m_ip_tensors, m_op_tensors, m_tensor_to_value_map,
                   m_module, m_external_tensors, m_invoke_args, m_engine,
                   runs, failure>>

Next ==
    \/ CompileAndRun
    \/ BuildModule
    \/ LowerDialect
    \/ Optimize
    \/ BindArguments
    \/ Execute
    \/ Cleanup

Spec == Init /\ [][Next]_vars

(***************************************************************************)
(* Boundary analysis on its own: build_tensors_list applied to every unit  *)
(* of every graph, and applied again to the lists it has already filled.   *)
(***************************************************************************)
InitBoundary ==
    /\ graph \in Graphs
    /\ m_sub_graph \in DistinctNodeLists
    /\ np_type = "Relu"
    /\ element_type = "f32"
    /\ Constructed("build_tensors_list")
    /\ NoDispatch

BuildTensorsList ==
    /\ pc = "build_tensors_list"
    /\ runs < MaxRuns
    /\ LET lists == build_tensors_list(graph, m_sub_graph, 1,
                                       <<m_ip_tensors, m_op_tensors>>)
       IN /\ m_ip_tensors' = lists[1]
          /\ m_op_tensors' = lists[2]
    /\ runs' = runs + 1
    /\ UNCHANGED <<unit, dispatch, m_tensor_to_value_map, m_module, m_builder,
                   m_external_tensors, m_invoke_args, heap, freed, m_mem_mgr,
                   m_engine, pc, phase, trace, failure>>

NextBoundary == BuildTensorsList

SpecBoundary == InitBoundary /\ [][NextBoundary]_vars

(***************************************************************************)
(* The element-type translation on its own: a unit of every element kind,  *)
(* one past the enumeration included, is handed to build_module.           *)
(***************************************************************************)
\* a value of element::Type_t that the switch has no label for
UnlistedElementType == "unlisted"

\* the units build_ng_dialect takes: those of one node
SingleNodeLists == { << n >> : n \in Nodes }

InitElementType ==
    /\ graph \in Graphs
    /\ m_sub_graph \in SingleNodeLists
    /\ np_type \in DOMAIN op_dispatcher
    /\ WellTyped(graph, m_sub_graph, np_type)
    /\ element_type \in ElementTypes \cup { UnlistedElementType }
    /\ Constructed("idle")
    /\ NoDispatch

NextElementType ==
    \/ CompileAndRun
    \/ BuildModule

SpecElementType == InitElementType /\ [][NextElementType]_vars

(***************************************************************************)
(* The type dispatch primitive on its own: every table of descriptors,     *)
(* every handle, every target type.                                        *)
(***************************************************************************)
InitDispatch ==
    /\ graph = [n \in Nodes |-> <<>>]
    /\ m_sub_graph = <<>>
    /\ np_type = "Relu"
    /\ element_type = "f32"
    /\ Constructed("idle")
    /\ type_info \in [Types -> DiscreteTypeInfo]
    /\ handle \in Handles
    /\ dispatched = NoResult

Called(name, Type, r) ==
    dispatched' = [op |-> name, target |-> Type, failed |-> r.failed,
               answer |-> r.answer]

IsType ==
    /\ \E Type \in Types, undefined \in UndefinedOutcomes :
          Called("is_type", Type, is_type(Type, handle, undefined))
    /\ UNCHANGED <<unit, type_info, handle, m_ip_tensors, m_op_tensors,
                   m_tensor_to_value_map, m_module, m_builder,
                   m_external_tensors, m_invoke_args, heap, freed, m_mem_mgr,
                   m_engine, pc, runs, phase, trace, failure>>

AsType ==
    /\ \E Type \in Types, undefined \in UndefinedOutcomes :
          Called("as_type", Type, as_type(Type, handle, undefined))
    /\ UNCHANGED <<unit, type_info, handle, m_ip_tensors, m_op_tensors,
                   m_tensor_to_value_map, m_module, m_builder,
                   m_external_tensors, m_invoke_args, heap, freed, m_mem_mgr,
                   m_engine, pc, runs, phase, trace, failure>>

AsTypePtr ==
    /\ \E Type \in Types, undefined \in UndefinedOutcomes :
          Called("as_type_ptr", Type, as_type_ptr(Type, handle, undefined))
    /\ UNCHANGED <<unit, type_info, handle, m_ip_tensors, m_op_tensors,
                   m_tensor_to_value_map, m_module, m_builder,
                   m_external_tensors, m_invoke_args, heap, freed, m_mem_mgr,
                   m_engine, pc, runs, phase, trace, failure>>

NextDispatch ==
    \/ IsType
    \/ AsType
    \/ AsTypePtr

SpecDispatch == InitDispatch /\ [][NextDispatch]_vars


(***************************************************************************)
(* Properties.                                                             *)
(***************************************************************************)
Entered(name) == \E k \in 1 .. Len(trace) : trace[k].op = name

RunEnded == pc \in { "done", "aborted", "unsupported" }

\* the build_module call of the current run has returned or failed
BuildEnded == Len(trace) >= 1

PassFailed ==
    \E k \in 1 .. Len(trace) :
        trace[k].op \in { "lower_dialect", "optimize" } /\ ~trace[k].ok

\* the phase an operation expects to find
Predecessor(name) ==
    CASE name = "build_module" -> "NotBuilt"
      [] name = "lower_dialect" -> "Built"
      [] name = "optimize" -> "Lowered"
      [] name = "bind_arguments" -> "Optimized"
      [] name = "execute" -> "Bound"
      [] name = "cleanup" -> "Executed"

\* the memory-reference parameters "main" declares: those a descriptor is
\* allocated for
MemRefParameters ==
    IF m_module = <<>> \/ getNamedFunction(m_module[1], "main") = <<>> THEN 0
    ELSE LET fargs == getNamedFunction(m_module[1], "main")[1].args
         IN Cardinality({ k \in 1 .. Len(fargs) : fargs[k].kind = "memref" })

\* C1: every phase operation entered while the instance is not in the
\* operation's predecessor phase is stopped by an assertion and leaves the
\* phase where it was.
C1_OutOfOrderStopped ==
    [][ ( /\ Len(trace') = Len(trace) + 1
          /\ phase # Predecessor(trace'[Len(trace')].op) )
        => ( /\ pc' = "aborted"
             /\ failure'.kind \in { "fatal", "abort" }
             /\ phase' = phase ) ]_vars

\* C2: once execute has been entered, the run does not end without cleanup:
\* when compile_and_run is over, cleanup has run and neither a descriptor
\* nor a scratch allocation is outstanding.
C2_CleanupAfterEveryAttempt ==
    (RunEnded /\ Entered("execute"))
        => (Entered("cleanup") /\ DOMAIN heap = {} /\ m_mem_mgr = 0)

\* C3: after a full run of the pipeline followed by cleanup no descriptor
\* (the scratch allocator's slot included) and no scratch allocation is
\* outstanding, every invocation argument has been freed, and no external
\* buffer has been freed.
C3_NothingOutstandingAfterCleanup ==
    pc = "done"
        => /\ DOMAIN heap = {}
           /\ m_mem_mgr = 0
           /\ Range(m_invoke_args) \subseteq freed
           /\ \A i \in 1 .. Len(m_external_tensors) :
                  m_external_tensors[i] \notin freed

C3_Witness ==
    /\ pc = "done"
    /\ phase = "Cleaned"
    /\ \A k \in 1 .. Len(trace) : trace[k].ok
    /\ Len(m_invoke_args) >= 3
    /\ Len(m_external_tensors) >= 2
    /\ \E k \in 1 .. Len(trace) : trace[k].op = "execute" /\ trace[k].n > 0

\* C4: when bind_arguments is called with an External Buffer Table whose
\* length differs from the number of (memory-reference) parameters the
\* function declares, it fails fatally, and execute is not entered: no
\* conversion, no engine, no invocation.
C4_TableMismatchIsFatal ==
    (Entered("bind_arguments") /\ Len(m_external_tensors) # MemRefParameters)
        => /\ pc = "aborted"
           /\ failure.kind = "fatal"
           /\ ~Entered("execute")
           /\ m_engine = <<>>
           /\ m_module[1].dialect # "llvm"

C4_Witness ==
    /\ Entered("bind_arguments")
    /\ MemRefParameters >= 2
    /\ Len(m_external_tensors) > MemRefParameters
    /\ pc = "aborted"
    /\ failure = Fatal("Number of external tensors doesn't match number of function arguments")

\* C5: once boundary analysis has run, every tensor produced outside the
\* unit and consumed by a node of the unit is in the boundary-input list
\* exactly once.
C5_BoundaryInputOnce ==
    runs >= 1
        => \A t \in AllTensors :
               ( /\ t[1] \notin Range(m_sub_graph)
                 /\ \E c \in Range(m_sub_graph) : t \in Range(graph[c]) )
               => Count(m_ip_tensors, t) = 1

\* a tensor from outside that two nodes of the unit consume, one of them twice
C5_Witness ==
    /\ runs >= 1
    /\ \E t \in AllTensors :
          /\ t[1] \notin Range(m_sub_graph)
          /\ \E c, d \in Range(m_sub_graph) :
                /\ c # d
                /\ Count(graph[c], t) = 2
                /\ Count(graph[d], t) = 1
          /\ Count(m_ip_tensors, t) = 1

\* C6: once boundary analysis has run, an output tensor of a node of the
\* unit is in the boundary-output list exactly once when some consumer of
\* it lies outside the unit, and not at all otherwise.
C6_BoundaryOutputIffOutsideUse ==
    runs >= 1
        => \A t \in AllTensors :
               t[1] \in Range(m_sub_graph)
               => Count(m_op_tensors, t) =
                      IF \E c \in Nodes \ Range(m_sub_graph) :
                             t \in Range(graph[c])
                      THEN 1 ELSE 0

\* one output used inside and outside the unit, another never used outside
C6_Witness ==
    /\ runs >= 1
    /\ \E t, u \in AllTensors :
          /\ t[1] \in Range(m_sub_graph)
          /\ u[1] \in Range(m_sub_graph)
          /\ \E c \in Range(m_sub_graph) : t \in Range(graph[c])
          /\ \E c \in Nodes \ Range(m_sub_graph) : t \in Range(graph[c])
          /\ ~\E c \in Nodes \ Range(m_sub_graph) : u \in Range(graph[c])
          /\ Count(m_op_tensors, t) = 1
          /\ Count(m_op_tensors, u) = 0

\* the build ended with the typed failure, whose text holds the node's name
EndedUnsupported ==
    /\ pc = "unsupported"
    /\ failure.kind = "unsupported_op"
    /\ description(np_type) \in Range(failure.msg)

\* C7 as stated: whenever the unit handed to build_module holds a node whose
\* type has no entry in the dispatch table, the build ends with the
\* unsupported-operation failure, whose message names the node.
C7_UnregisteredAlwaysUnsupported ==
    (BuildEnded /\ m_sub_graph # <<>> /\ np_type \notin DOMAIN op_dispatcher)
        => EndedUnsupported

\* C7 as amended: the same, for a build that reaches the dispatch: the
\* boundary lists are not empty, the element type is supported and the
\* unit holds one node.
C7_DispatchedUnregisteredUnsupported ==
    ( /\ BuildEnded
      /\ np_type \notin DOMAIN op_dispatcher
      /\ m_ip_tensors # <<>>
      /\ m_op_tensors # <<>>
      /\ get_mlir_type(element_type).kind # "fatal"
      /\ Len(m_sub_graph) = 1 )
        => EndedUnsupported

C7_Witness ==
    /\ BuildEnded
    /\ np_type = "Relu"
    /\ Len(m_sub_graph) = 1
    /\ EndedUnsupported
    /\ m_tensor_to_value_map # {}

\* C8: the value map holds at most one entry per tensor; a second run, which
\* defines the unit's output tensor again, fails fatally and leaves the
\* entries of the first run as they were; a tensor that nothing defines is
\* never given an entry, and a build that has to look it up fails fatally
\* without adding a function to the module.
C8_SingleAssignment ==
    /\ \A t \in AllTensors : Cardinality(map_find(m_tensor_to_value_map, t)) <= 1
    /\ (runs >= 2 /\ BuildEnded /\ phase = "Cleaned")
           => /\ pc = "aborted"
              /\ failure = Fatal("tensor value already defined")
              /\ \A e \in m_tensor_to_value_map : e[2].fn = 1
              /\ << get_output_tensor_ptr(m_sub_graph[1]),
                    ResultValue(1, m_sub_graph[1]) >> \in m_tensor_to_value_map
    /\ \A t \in Range(m_op_tensors) :
           ( /\ BuildEnded
             /\ t \notin Range(m_ip_tensors)
             /\ t # get_output_tensor_ptr(m_sub_graph[1]) )
           => /\ map_find(m_tensor_to_value_map, t) = {}
              /\ pc \in { "aborted", "unsupported" }
              /\ failure.kind # "none"
              /\ m_module[1].functions = <<>>
              /\ ( /\ Len(m_sub_graph) = 1
                   /\ np_type = "Add"
                   /\ get_mlir_type(element_type).kind # "fatal" )
                 => failure = Fatal("Undefined tensor")

C8_Witness ==
    /\ runs = 2
    /\ BuildEnded
    /\ failure = Fatal("tensor value already defined")
    /\ Cardinality(m_tensor_to_value_map) >= 2

\* C9: when the pass run of lower_dialect or of optimize reports failure,
\* the pipeline stops there: neither bind_arguments nor execute is entered.
C9_PassFailureStopsPipeline ==
    PassFailed => (~Entered("bind_arguments") /\ ~Entered("execute"))

\* C10: when boundary analysis yields an empty input or output list,
\* build_module fails fatally, with no function in the module, no entry in
\* the value map and no builder (nothing dispatched).
C10_EmptyListsFatalFirst ==
    (BuildEnded /\ (m_ip_tensors = <<>> \/ m_op_tensors = <<>>))
        => /\ pc = "aborted"
           /\ failure \in { Fatal("Cannot have empty inputs list"),
                           Fatal("Cannot have empty outputs list") }
           /\ Len(trace) = 1
           /\ m_module = << EmptyModule >>
           /\ m_tensor_to_value_map = {}
           /\ m_builder = <<>>

\* a unit that takes tensors from outside and hands none on
C10_Witness ==
    /\ BuildEnded
    /\ m_ip_tensors # <<>>
    /\ m_op_tensors = <<>>
    /\ np_type = "Add"
    /\ failure = Fatal("Cannot have empty outputs list")

\* the table of the element kinds that have an IR type
IRTypeTable ==
    [t \in { "f32", "f64", "i8", "u8", "i16", "u16", "i32", "u32", "i64", "u64" } |->
        CASE t = "f32" -> [kind |-> "float", width |-> 32]
          [] t = "f64" -> [kind |-> "float", width |-> 64]
          [] t \in { "i8", "u8" } -> [kind |-> "integer", width |-> 8]
          [] t \in { "i16", "u16" } -> [kind |-> "integer", width |-> 16]
          [] t \in { "i32", "u32" } -> [kind |-> "integer", width |-> 32]
          [] OTHER -> [kind |-> "integer", width |-> 64]]

\* build_module got as far as the translation of its tensors' types
TypesTranslated ==
    /\ Len(trace) = 1
    /\ trace[1].op = "build_module"
    /\ m_ip_tensors # <<>>
    /\ m_op_tensors # <<>>

SignatureTypes ==
    UNION { Range(m_module[1].functions[k].args)
                \cup Range(m_module[1].functions[k].results) :
            k \in 1 .. Len(m_module[1].functions) }

(***************************************************************************)
(* C11: the element-type mapping is a fixed total table.  f32 gives the    *)
(* float32 IR type, f64 the float64 IR type, the signed and the unsigned   *)
(* integer kind of width 8, 16, 32, 64 the one integer IR type of that     *)
(* width; every other kind makes the translation fail fatally, and no IR   *)
(* type (no function signature) comes out of it.                           *)
(***************************************************************************)
C11_ElementTypeTable ==
    TypesTranslated =>
        IF element_type \in DOMAIN IRTypeTable
        THEN /\ get_mlir_type(element_type) = IRTypeTable[element_type]
             /\ failure # Fatal("MLIR: Unsupported NGraph types")
             /\ \A t \in SignatureTypes :
                    t = [kind |-> "ng_tensor",
                         element |-> IRTypeTable[element_type]]
        ELSE /\ failure = Fatal("MLIR: Unsupported NGraph types")
             /\ pc = "aborted"
             /\ SignatureTypes = {}

\* an unsigned 8-bit unit is built: its tensors have the 8-bit integer type
C11_Witness ==
    /\ TypesTranslated
    /\ element_type = "u8"
    /\ failure = NoFailure
    /\ SignatureTypes = { NGTensorType(IntegerType(8)) }

\* the descriptor that v reports is the very descriptor object of T
SameDescriptor(v, Type) == v # NullHandle /\ v.info = Type

ExpectedAnswer ==
    CASE dispatched.op = "is_type" -> SameDescriptor(handle, dispatched.target)
      [] dispatched.op = "as_type" ->
            [kind |-> "raw", type |-> dispatched.target,
             addr |-> IF SameDescriptor(handle, dispatched.target)
                      THEN handle.addr ELSE 0]
      [] dispatched.op = "as_type_ptr" ->
            [kind |-> "shared", type |-> dispatched.target,
             addr |-> IF SameDescriptor(handle, dispatched.target)
                      THEN handle.addr ELSE 0]
      [] OTHER -> FALSE

(***************************************************************************)
(* C12: the type dispatch primitive is flat and identity-based.  A call    *)
(* of is_type<T>(v) answers true exactly when the descriptor v reports is  *)
(* the very descriptor object of T, also when another type's descriptor    *)
(* has the same name and version; as_type<T>(v) and as_type_ptr<T>(v) give *)
(* v narrowed to T when is_type<T>(v) holds and a null / empty result      *)
(* otherwise; no call fails.                                               *)
(***************************************************************************)
C12_IdentityDispatchNeverFails ==
    dispatched.op # "none" => (~dispatched.failed /\ dispatched.answer = ExpectedAnswer)

\* C12 for the handles that point to an object: the same statement, with
\* the null handle left out
C12_IdentityDispatchOfObjects ==
    (dispatched.op # "none" /\ handle # NullHandle)
        => (~dispatched.failed /\ dispatched.answer = ExpectedAnswer)

\* another type has a descriptor of the same name and version as the one
\* the handle reports, and the handle is tested against that other type
C12_SameNameOtherDescriptor ==
    /\ dispatched.op = "as_type"
    /\ handle # NullHandle
    /\ dispatched.target # handle.info
    /\ type_info[dispatched.target] = type_info[handle.info]
    /\ dispatched.answer = Pointer("raw", dispatched.target, 0)

\* the lowered function "main" of the module
MainFunction == getNamedFunction(m_module[1], "main")[1]

\* the invocation arguments that point to the scratch allocator
MemMgrArguments ==
    { k \in 1 .. Len(m_invoke_args) :
        /\ m_invoke_args[k] \in DOMAIN heap
        /\ heap[m_invoke_args[k]] = MemMgrPointer }

\* C13: when bind_arguments has completed, the invocation argument list
\* holds one descriptor per (memory-reference) parameter of the function and
\* one trailing entry, as many entries as the function declares parameters;
\* descriptor i holds buffer i of the External Buffer Table, and the last
\* entry, the only one that does, at the position reserved for the scratch
\* allocator, points to the instance's scratch allocator.
C13_ArgumentsBound ==
    pc = "execute" =>
        /\ Len(m_invoke_args) = MemRefParameters + 1
        /\ Len(m_invoke_args) = Len(MainFunction.args)
        /\ Len(m_external_tensors) = MemRefParameters
        /\ \A i \in 1 .. Len(m_external_tensors) :
              /\ m_invoke_args[i] \in DOMAIN heap
              /\ heap[m_invoke_args[i]] = m_external_tensors[i]
        /\ \A i, j \in 1 .. Len(m_invoke_args) :
              m_invoke_args[i] = m_invoke_args[j] => i = j
        /\ MemMgrArguments = { Len(m_invoke_args) }
        /\ Len(m_invoke_args) - 1 = get_mem_mgr_arg_id(MainFunction)

\* an input and an output are bound, then the scratch allocator
C13_Witness ==
    /\ pc = "execute"
    /\ Len(m_ip_tensors) >= 1
    /\ Len(m_op_tensors) >= 1
    /\ Len(m_external_tensors) = Len(m_ip_tensors) + Len(m_op_tensors)
    /\ Len(m_invoke_args) = Len(m_external_tensors) + 1
    /\ heap[m_invoke_args[1]] = ExternalBuffer(1)
    /\ heap[m_invoke_args[2]] = ExternalBuffer(2)
    /\ heap[m_invoke_args[Len(m_invoke_args)]] = MemMgrPointer

\* the instructions of the function that build_module has just built
BuiltBody == m_module[1].functions[1].body

ReturnsOf(body) == { k \in 1 .. Len(body) : body[k].op = "NG_ReturnOp" }

\* build_module has ended in this run with the unit's node lowered: its
\* value is in the Value Map, create_return was the next call
NodeLowered ==
    /\ Len(trace) = 1
    /\ trace[1].op = "build_module"
    /\ Len(m_sub_graph) = 1
    /\ << << m_sub_graph[1], 0 >>,
          [kind |-> "res", fn |-> runs, idx |-> m_sub_graph[1]] >>
            \in m_tensor_to_value_map

UndefinedOutputs ==
    { k \in 1 .. Len(m_op_tensors) :
        \A e \in m_tensor_to_value_map : e[1] # m_op_tensors[k] }

\* C14: when build_module has completed, the function's body holds one
\* return instruction, its last, after the instruction of every unit node;
\* the return has as many operands as there are boundary outputs and operand
\* k is the Value Map entry of the k-th boundary-output tensor.  When a
\* boundary-output tensor has no Value Map entry once the unit's node is
\* lowered, the build fails fatally and no return is emitted.
C14_ReturnListsBoundaryOutputs ==
    /\ pc = "lower_dialect" =>
          /\ Len(m_module[1].functions) = 1
          /\ ReturnsOf(BuiltBody) = { Len(BuiltBody) }
          /\ Len(BuiltBody) = Len(m_sub_graph) + 1
          /\ \A k \in 1 .. Len(m_sub_graph) :
                BuiltBody[k].result =
                    [kind |-> "res", fn |-> runs, idx |-> m_sub_graph[k]]
          /\ Len(BuiltBody[Len(BuiltBody)].operands) = Len(m_op_tensors)
          /\ \A k \in 1 .. Len(m_op_tensors) :
                << m_op_tensors[k], BuiltBody[Len(BuiltBody)].operands[k] >>
                    \in m_tensor_to_value_map
    /\ (NodeLowered /\ UndefinedOutputs # {}) =>
          /\ failure = Fatal("Undefined tensor")
          /\ pc = "aborted"
          /\ m_module[1].functions = <<>>

\* a unit is built whose node's value is what the function returns
C14_Witness ==
    /\ pc = "lower_dialect"
    /\ NodeLowered
    /\ Len(m_op_tensors) >= 1
    /\ BuiltBody[Len(BuiltBody)].op = "NG_ReturnOp"
    /\ BuiltBody[Len(BuiltBody)].operands =
          << [kind |-> "res", fn |-> runs, idx |-> m_sub_graph[1]] >>

\* a node with two outputs used outside is lowered: the second output has
\* no value and the build stops
C14_UndefinedOutputReached ==
    /\ NodeLowered
    /\ Len(m_op_tensors) = 2
    /\ UndefinedOutputs = { 2 }
    /\ failure = Fatal("Undefined tensor")

=============================================================================
